---- MODULE Spec2Model ----
(***************************************************************************)
(* A model of the GDB/MI session engine of mcp-gdb (src/src/index.ts):     *)
(* one GdbSession, the readline 'line' handler that dispatches parsed MI   *)
(* records, executeGdbCommand with its 10 s timer, waitForStop and         *)
(* terminateGdbSession.  The debugger is the environment: it may emit any  *)
(* record at any time, exit at any time, or stay silent.                   *)
(* Further specifications follow one tool call (gdb_step, gdb_continue,    *)
(* gdb_start) through the engine, and the registry of sessions through     *)
(* gdb_start, the lookups of the handlers, gdb_terminate and SIGINT.       *)
(* MiParser (parse, parseData, unescapeString) is modelled on strings as   *)
(* sequences of characters, with a specification that parses one line and  *)
(* one that follows stream lines from the reader into outputBuffer.        *)
(***************************************************************************)
EXTENDS Integers, Sequences, FiniteSets, TLC

(* ------------------------------ bounds --------------------------------- *)

\* executeGdbCommand calls (terminate's exit command included) and waitForStop
\* calls made in one run, together
MaxOps == 2
\* console stream records accumulated into outputBuffer between two commands
MaxBuf == 1
\* sessions created in one run
MaxSessions == 2
\* the last value of the clock; the first is 1
MaxNow == 2
\* gdb_command calls made while fewer lines than this have been written
MaxCalls == 1
\* console stream records accumulated between two commands when the lines
\* are followed from the reader through the parser
MaxStream == 2

(* --------------------------- MI records -------------------------------- *)

\* parseInt of an absent token group gives undefined (index.ts:1626)
NoToken == -1

\* the object parseData returns when the record carries no key=value pair
EmptyData == [k \in {} |-> ""]

\* the tokens executeGdbCommand can allocate in one run
Tokens == 1 .. MaxOps

\* MiResult.class (index.ts:19)
ResultClasses == {"done", "running", "connected", "error", "exit"}

\* payloads of a result record: for ^error none, an empty msg, a msg text
ResultShapes ==
    {[class |-> c, data |-> EmptyData] : c \in ResultClasses}
        \cup {[class |-> "error", data |-> [msg |-> m]] : m \in {"", "boom"}}

\* MiParser.parse, result branch (index.ts:1621-1631): every shape under every
\* token the session can allocate, and ^done without a token and with token 0
ResultRecords ==
    {[type |-> "result", token |-> t, class |-> s.class, data |-> s.data] :
        t \in Tokens, s \in ResultShapes}
        \cup {[type |-> "result", token |-> t, class |-> "done", data |-> EmptyData] :
                t \in {NoToken, 0}}

\* payloads of *stopped
StopData == {[reason |-> "breakpoint-hit"], [reason |-> "end-stepping-range"]}

\* MiParser.parse, async branch (index.ts:1634-1646)
AsyncRecords ==
    {[type |-> "async", atype |-> "exec", class |-> "stopped", data |-> d] :
        d \in StopData}
        \cup {[type |-> "async", atype |-> "exec", class |-> c, data |-> EmptyData] :
                c \in {"running", "thread-selected"}}
        \cup {[type |-> "async", atype |-> "status", class |-> "stopped",
                 data |-> EmptyData],
                [type |-> "async", atype |-> "notify", class |-> "running",
                 data |-> EmptyData]}

\* MiParser.parse, stream branch (index.ts:1649-1659)
StreamRecords ==
    {[type |-> "stream", stype |-> s, content |-> "a"] :
        s \in {"console", "target", "log"}}

\* MiParser.parse, prompt branch (index.ts:1616-1618)
PromptRecord == [type |-> "prompt"]

\* MiParser.parse returns null for a line of no known shape (index.ts:1661)
NullRecord == [type |-> "null"]

Records ==
    ResultRecords \cup AsyncRecords \cup StreamRecords \cup {PromptRecord, NullRecord}

(* ------------------------------ state ---------------------------------- *)

VARIABLES
    ready,            \* session.ready
    tokenSequence,    \* session.tokenSequence
    pendingCommands,  \* session.pendingCommands: token -> the call it settles
    status,           \* session.status
    stopHandler,      \* session.stopHandler: 0 (undefined) or a waitForStop call
    outputBuffer,     \* session.outputBuffer, a sequence of stream contents
    callToken,        \* per executeGdbCommand call: its token, 0 when none
    promise,          \* per executeGdbCommand call: the state of its promise
    stopPromise,      \* per waitForStop call: the state of its promise
    stdin,            \* the lines written to session.process.stdin
    timers,           \* armed 10 s setTimeout callbacks, in the order armed
    processAlive,     \* the gdb child process has not exited
    killed,           \* session.process.killed
    signals,          \* the signals delivered to the gdb process
    rlClosed,         \* session.rl.close() was called
    registered,       \* activeSessions.has(session.id)
    termPc,           \* terminateGdbSession: "idle", "awaiting", "done"
    termCall,         \* the executeGdbCommand call terminate awaits
    handler,          \* the tool call that is followed: tool, pc, call, waiter
    response,         \* what the followed tool call returned
    stopSeen,         \* the first *stopped dispatched after its command's Result
    now,              \* Date.now()
    mapData,          \* activeSessions: the entries of the Map, in insertion order
    sessionObjs,      \* the GdbSession objects built so far
    written,          \* lines written to the debuggers, all sessions together
    shutdown,         \* the SIGINT handler: pc, cursor of its iterator, session of its call
    line,             \* the line handed to MiParser.parse
    parsed,           \* what MiParser.parse returned for it
    linePc,           \* the 'line' handler: idle, or handling (the record parsed, notified)
    notifications     \* the notifications the handler sent for the line it was given last

vars ==
    <<ready, tokenSequence, pendingCommands, status, stopHandler, outputBuffer,
      callToken, promise, stopPromise, stdin, timers, processAlive, killed,
      signals,
      rlClosed, registered, termPc, termCall, handler, response, stopSeen,
      now, mapData, sessionObjs, written, shutdown, line, parsed,
      linePc, notifications>>

sessionVars ==
    <<ready, tokenSequence, pendingCommands, status, stopHandler, outputBuffer>>

processVars == <<processAlive, killed, signals, rlClosed, registered>>

toolVars == <<handler, response, stopSeen>>

registryVars == <<now, mapData, sessionObjs, written, shutdown>>

parserVars == <<line, parsed>>

readerVars == <<linePc, notifications>>

\* no tool call is followed
NoHandler == [tool |-> "none", pc |-> "idle", call |-> 0, waiter |-> 0]

\* the followed tool call has not returned
NoResponse == [isError |-> FALSE, text |-> "none"]

\* no record
NoRecord == [type |-> "none"]

\* the run may still make a call: the bounds leave room for one
Budget == Len(promise) + Len(stopPromise) < MaxOps

\* a promise that is neither resolved nor rejected
Pending == [kind |-> "pending"]

\* a settled promise whose awaiting caller has resumed and taken the outcome
Returned == [kind |-> "returned"]

\* a promise is settled and the continuation of its await has not run yet
Settled(p) == p.kind \in {"resolved", "rejected"}

\* the 10 s timer of handleGdbStart's wait for the prompt (index.ts:602-605)
StartTimer == [token |-> 0, call |-> 0]

\* the session object built by handleGdbStart, stored in activeSessions, with
\* the wait for the prompt under way (index.ts:530-605)
SessionInit ==
    /\ ready = FALSE
    /\ tokenSequence = 1
    /\ pendingCommands = EmptyData
    /\ status = "stopped"
    /\ stopHandler = 0
    /\ outputBuffer = << >>
    /\ callToken = << >>
    /\ promise = << >>
    /\ stopPromise = << >>
    /\ stdin = << >>
    /\ timers = <<StartTimer>>
    /\ processAlive = TRUE
    /\ killed = FALSE
    /\ signals = {}
    /\ rlClosed = FALSE
    /\ registered = TRUE
    /\ termPc = "idle"
    /\ termCall = 0

\* the SIGINT handler has not run
NoShutdown == [pc |-> "idle", cursor |-> 0, call |-> 0]

\* the registry as the server starts: no session, the clock at its first value
RegistryInit ==
    /\ now = 1
    /\ mapData = << >>
    /\ sessionObjs = << >>
    /\ written = 0
    /\ shutdown = NoShutdown

\* no line has been handed to MiParser.parse
NoLine ==
    /\ line = << >>
    /\ parsed = NoRecord
    /\ linePc = "idle"
    /\ notifications = << >>

\* a session just built; no tool call is followed
Init ==
    /\ SessionInit
    /\ RegistryInit
    /\ NoLine
    /\ handler = NoHandler
    /\ response = NoResponse
    /\ stopSeen = NoRecord

(* ----------------------- promises and callbacks ------------------------- *)

\* a JavaScript promise settles once: resolve/reject on a settled one is a no-op
Settle(p, outcome) == IF p = Pending THEN outcome ELSE p

\* reject(new Error(result.data.msg || 'Unknown GDB error')) (index.ts:1508)
RejectMessage(data) ==
    IF "msg" \in DOMAIN data /\ data.msg # ""
    THEN data.msg
    ELSE "Unknown GDB error"

\* a callback that rejects on ^exit as well as on ^error
CommandCallbackExitRejects(result, buf) ==
    IF result.class \in {"error", "exit"}
    THEN [kind |-> "rejected", message |-> RejectMessage(result.data)]
    ELSE [kind |-> "resolved", result |-> result, output |-> buf]

\* a callback that resolves without the accumulated output
CommandCallbackNoOutput(result, buf) ==
    IF result.class = "error"
    THEN [kind |-> "rejected", message |-> RejectMessage(result.data)]
    ELSE [kind |-> "resolved", result |-> result, output |-> << >>]

\* a callback that leaves the caller of a command that started the target
\* waiting for the stop
CommandCallbackAwaitsStop(result, buf) ==
    IF result.class = "error"
    THEN [kind |-> "rejected", message |-> RejectMessage(result.data)]
    ELSE IF result.class = "running" THEN Pending
    ELSE [kind |-> "resolved", result |-> result, output |-> buf]

\* the callback executeGdbCommand registers for its token (index.ts:1506-1515)
CommandCallback(result, buf) ==
    IF result.class = "error"
    THEN [kind |-> "rejected", message |-> RejectMessage(result.data)]
    ELSE [kind |-> "resolved", result |-> result, output |-> buf]

\* the callback waitForStop stores in session.stopHandler (index.ts:1550-1552)
StopCallback(record) == [kind |-> "resolved", record |-> record]

\* a map whose entries are never removed
MapKeep(m, k) == m

\* Map.delete
MapDelete(m, k) == [t \in DOMAIN m \ {k} |-> m[t]]

\* Map.set
MapSet(m, k, v) == [t \in DOMAIN m \cup {k} |-> IF t = k THEN v ELSE m[t]]

(* ------------------- the readline 'line' handler ----------------------- *)

\* if (token && session.pendingCommands.has(token)) (index.ts:551-552)
HasPending(rec, pend) ==
    /\ rec.type = "result"
    /\ rec.token # NoToken
    /\ rec.token # 0
    /\ rec.token \in DOMAIN pend

\* a dispatcher that answers commands in submission order, whatever the token
PendingKeyOldest(rec, pend) ==
    CHOOSE t \in DOMAIN pend : \A u \in DOMAIN pend : t <= u

\* session.pendingCommands.get(token) (index.ts:553): the key looked up
PendingKey(rec, pend) == rec.token

\* *stopped / *running (index.ts:570-578)
IsExec(rec, class) ==
    rec.type = "async" /\ rec.atype = "exec" /\ rec.class = class

\* a dispatcher that also takes ^running for the target having started
StatusAfterInferred(rec, st) ==
    IF IsExec(rec, "stopped") THEN "stopped"
    ELSE IF IsExec(rec, "running") THEN "running"
    ELSE IF rec.type = "result" /\ rec.class = "running" THEN "running"
    ELSE st

\* session.status after a record (index.ts:570-578)
StatusAfter(rec, st) ==
    IF IsExec(rec, "stopped") THEN "stopped"
    ELSE IF IsExec(rec, "running") THEN "running"
    ELSE st

\* a handler that accumulates the stream records of every kind
AccumulatesAll(rec) == rec.type = "stream"

\* the stream records that are accumulated (index.ts:581)
Accumulates(rec) == rec.type = "stream" /\ rec.stype = "console"

\* session.outputBuffer after a record (index.ts:579-583)
BufferAfter(rec, buf) ==
    IF Accumulates(rec) THEN Append(buf, rec.content) ELSE buf

\* a handler that takes every line for a sign of life
ReadyAfterAnyLine(rec, rdy) == TRUE

\* a dispatcher that takes any Result for the end of the start-up too
ReadyAfterResult(rec, rdy) ==
    IF rec.type \in {"prompt", "result"} THEN TRUE ELSE rdy

\* session.ready after a record (index.ts:584-589)
ReadyAfter(rec, rdy) == IF rec.type = "prompt" THEN TRUE ELSE rdy

\* session.stopHandler after a record (index.ts:572-575)
StopHandlerAfter(rec, h) == IF IsExec(rec, "stopped") THEN 0 ELSE h

\* the waitForStop promises after a record (index.ts:572-573)
StopPromiseAfter(rec, h, sp) ==
    IF IsExec(rec, "stopped") /\ h # 0
    THEN [sp EXCEPT ![h] = Settle(@, StopCallback(rec))]
    ELSE sp

\* rl.on('line', ...) for one parsed line, outputBuffer holding fewer than
\* cap texts when the line adds one (index.ts:546-590)
LineHandlerUpTo(rec, cap) ==
    /\ ~rlClosed
    /\ Accumulates(rec) => Len(outputBuffer) < cap
    /\ IF HasPending(rec, pendingCommands)
       THEN LET key == PendingKey(rec, pendingCommands) IN
            /\ pendingCommands' = MapDelete(pendingCommands, key)
            /\ promise' =
                 [promise EXCEPT ![pendingCommands[key]] =
                     Settle(@, CommandCallback(rec, outputBuffer))]
       ELSE UNCHANGED <<pendingCommands, promise>>
    /\ status' = StatusAfter(rec, status)
    /\ stopPromise' = StopPromiseAfter(rec, stopHandler, stopPromise)
    /\ stopHandler' = StopHandlerAfter(rec, stopHandler)
    /\ outputBuffer' = BufferAfter(rec, outputBuffer)
    /\ ready' = ReadyAfter(rec, ready)
    /\ UNCHANGED <<tokenSequence, callToken, stdin, timers, processVars,
                   termPc, termCall>>

\* rl.on('line', ...) for one parsed line (index.ts:546-590)
LineHandler(rec) == LineHandlerUpTo(rec, MaxBuf)

\* the reader delivers one line of the debugger's output
Dispatch(rec) ==
    /\ LineHandler(rec)
    /\ UNCHANGED <<toolVars, registryVars, parserVars, readerVars>>

(* ------------------------ executeGdbCommand ---------------------------- *)

\* the continuation of an await on a settled promise is queued as a microtask:
\* it runs before any timer, process event or new tool call, but after the
\* lines the reader delivers in the same chunk
MicrotaskPending ==
    \/ \E c \in DOMAIN promise : Settled(promise[c])
    \/ \E w \in DOMAIN stopPromise : Settled(stopPromise[w])

\* `${token}-${command}\n` (index.ts:1519); a command text is the sequence
\* of its pieces, a leading dash being a piece of its own
CommandLine(token, command) == <<token, "-">> \o command \o <<"\n">>

\* executeGdbCommand without its readiness check
NotReadyUnchecked(rdy) == FALSE

\* if (!session.ready) (index.ts:1496)
NotReady(rdy) == ~rdy

\* a session that registers every callback under the key 0
TokenTakenFixed(seq) == 0

\* session.tokenSequence++ (index.ts:1501): the token taken
TokenTaken(seq) == seq

\* a counter that is read and never advanced
NextTokenSequenceStuck(seq) == seq

\* session.tokenSequence++ (index.ts:1501): the value left in the counter
NextTokenSequence(seq) == seq + 1

\* executeGdbCommand(session, command) up to its return (index.ts:1494-1536);
\* prom holds the promises made so far
ExecuteGdbCommand(command, prom) ==
    LET call == Len(prom) + 1
        token == TokenTaken(tokenSequence)
    IN  IF NotReady(ready)
        THEN /\ promise' = Append(prom,
                   [kind |-> "rejected", message |-> "GDB session is not ready"])
             /\ callToken' = Append(callToken, 0)
             /\ UNCHANGED <<tokenSequence, outputBuffer, pendingCommands,
                            stdin, timers>>
        ELSE /\ tokenSequence' = NextTokenSequence(tokenSequence)
             /\ outputBuffer' = << >>
             /\ pendingCommands' = MapSet(pendingCommands, token, call)
             /\ stdin' = Append(stdin, CommandLine(token, command))
             /\ timers' = Append(timers, [token |-> token, call |-> call])
             /\ promise' = Append(prom, Pending)
             /\ callToken' = Append(callToken, token)

\* the commands tool handlers pass to executeGdbCommand
Commands == {<<"exec-continue">>}

\* a tool handler finds the session in activeSessions and calls
\* executeGdbCommand (e.g. handleGdbCommand, index.ts:716-732)
Execute(command) ==
    /\ registered
    /\ Budget
    /\ ~MicrotaskPending
    /\ ExecuteGdbCommand(command, promise)
    /\ UNCHANGED <<ready, status, stopHandler, stopPromise, processVars,
                   termPc, termCall>>
    /\ UNCHANGED <<toolVars, registryVars, parserVars, readerVars>>

\* the call is terminateGdbSession's
IsTerminateCall(call) == termPc = "awaiting" /\ termCall = call

\* a tool handler resumes after its await of executeGdbCommand and returns
\* (e.g. handleGdbCommand, index.ts:732-753)
Return(call) ==
    /\ call \in DOMAIN promise
    /\ Settled(promise[call])
    /\ ~IsTerminateCall(call)
    /\ promise' = [promise EXCEPT ![call] = Returned]
    /\ UNCHANGED <<sessionVars, callToken, stopPromise, stdin, timers,
                   processVars, termPc, termCall>>
    /\ UNCHANGED <<toolVars, registryVars, parserVars, readerVars>>

\* a tool handler resumes after a resolved executeGdbCommand and issues its
\* next command on the session it holds (e.g. handleGdbLoad, index.ts:680-687)
ReturnThenExecute(call, command) ==
    /\ call \in DOMAIN promise
    /\ promise[call].kind = "resolved"
    /\ ~IsTerminateCall(call)
    /\ Budget
    /\ ExecuteGdbCommand(command, [promise EXCEPT ![call] = Returned])
    /\ UNCHANGED <<ready, status, stopHandler, stopPromise, processVars,
                   termPc, termCall>>
    /\ UNCHANGED <<toolVars, registryVars, parserVars, readerVars>>

\* a timer that rejects its call and leaves the entry in pendingCommands
TimeoutFireKeeps ==
    /\ timers # << >>
    /\ Head(timers) # StartTimer
    /\ ~MicrotaskPending
    /\ LET t == Head(timers) IN
       IF t.token \in DOMAIN pendingCommands
       THEN promise' = [promise EXCEPT ![t.call] =
                 Settle(@, [kind |-> "rejected",
                            message |-> "GDB command timed out"])]
       ELSE UNCHANGED promise
    /\ timers' = Tail(timers)
    /\ UNCHANGED <<ready, tokenSequence, pendingCommands, status, stopHandler,
                   outputBuffer, callToken, stopPromise, stdin, processVars,
                   termPc, termCall>>
    /\ UNCHANGED <<toolVars, registryVars, parserVars, readerVars>>

\* the setTimeout callback of executeGdbCommand (index.ts:1530-1535)
TimeoutFire ==
    /\ timers # << >>
    /\ Head(timers) # StartTimer
    /\ ~MicrotaskPending
    /\ LET t == Head(timers) IN
       IF t.token \in DOMAIN pendingCommands
       THEN /\ pendingCommands' = MapDelete(pendingCommands, t.token)
            /\ promise' = [promise EXCEPT ![t.call] =
                 Settle(@, [kind |-> "rejected",
                            message |-> "GDB command timed out"])]
       ELSE UNCHANGED <<pendingCommands, promise>>
    /\ timers' = Tail(timers)
    /\ UNCHANGED <<ready, tokenSequence, status, stopHandler, outputBuffer,
                   callToken, stopPromise, stdin, processVars, termPc, termCall>>
    /\ UNCHANGED <<toolVars, registryVars, parserVars, readerVars>>

(* ---------------------------- waitForStop ------------------------------ *)

\* session.stopHandler = (record) => resolve(record) (index.ts:1550-1552)
RegisterStopHandler(h, waiter) == waiter

\* waitForStop(session) up to its return (index.ts:1542-1566)
WaitForStop ==
    /\ stopPromise' = Append(stopPromise, Pending)
    /\ stopHandler' = RegisterStopHandler(stopHandler, Len(stopPromise) + 1)

\* session.process.kill(signal): the signal is delivered, and killed set,
\* when the process has not exited
Kill(signal, alive) ==
    /\ killed' = (killed \/ alive)
    /\ signals' = (IF alive THEN signals \cup {signal} ELSE signals)

\* handleGdbInterrupt with useSigint (index.ts:1139-1159)
Interrupt ==
    /\ registered
    /\ Budget
    /\ ~MicrotaskPending
    /\ Kill("SIGINT", processAlive)
    /\ WaitForStop
    /\ UNCHANGED <<ready, tokenSequence, pendingCommands, status, outputBuffer,
                   callToken, promise, stdin, timers, processAlive, rlClosed,
                   registered, termPc, termCall>>
    /\ UNCHANGED <<toolVars, registryVars, parserVars, readerVars>>

\* a tool handler resumes after a resolved executeGdbCommand and waits for
\* the stop (e.g. handleGdbStep, index.ts:1193-1205)
ReturnThenWait(call) ==
    /\ call \in DOMAIN promise
    /\ promise[call].kind = "resolved"
    /\ ~IsTerminateCall(call)
    /\ Budget
    /\ promise' = [promise EXCEPT ![call] = Returned]
    /\ WaitForStop
    /\ UNCHANGED <<ready, tokenSequence, pendingCommands, status, outputBuffer,
                   callToken, stdin, timers, processVars, termPc, termCall>>
    /\ UNCHANGED <<toolVars, registryVars, parserVars, readerVars>>

\* a tool handler resumes after its await of waitForStop
\* (e.g. handleGdbStep, index.ts:1205-1212)
StopReturn(waiter) ==
    /\ waiter \in DOMAIN stopPromise
    /\ Settled(stopPromise[waiter])
    /\ stopPromise' = [stopPromise EXCEPT ![waiter] = Returned]
    /\ UNCHANGED <<sessionVars, callToken, promise, stdin, timers,
                   processVars, termPc, termCall>>
    /\ UNCHANGED <<toolVars, registryVars, parserVars, readerVars>>

(* ------------------------ process and teardown ------------------------- *)

\* handleGdbStart's wait for the prompt is rejected while the session is
\* not ready
StartFails == ~ready

\* the catch block of handleGdbStart (index.ts:629-636)
StartCleanup(alive) ==
    IF registered
    THEN /\ Kill("SIGTERM", alive)
         /\ rlClosed' = TRUE
         /\ registered' = FALSE
    ELSE UNCHANGED <<killed, signals, rlClosed, registered>>

\* the 10 s timer of handleGdbStart fires (index.ts:602-605, 627-636)
StartTimeoutFires ==
    /\ timers # << >>
    /\ Head(timers) = StartTimer
    /\ ~MicrotaskPending
    /\ timers' = Tail(timers)
    /\ IF StartFails
       THEN StartCleanup(processAlive)
       ELSE UNCHANGED <<killed, signals, rlClosed, registered>>
    /\ UNCHANGED <<sessionVars, callToken, promise, stopPromise, stdin,
                   processAlive, termPc, termCall>>

StartTimeout ==
    /\ StartTimeoutFires
    /\ UNCHANGED <<toolVars, registryVars, parserVars, readerVars>>

\* the gdb process exits; gdbProcess.on('exit') (index.ts:612-617) fails a
\* start that still waits and leaves the session's fields as they are
ProcessExits ==
    /\ processAlive
    /\ ~MicrotaskPending
    /\ processAlive' = FALSE
    /\ IF StartFails
       THEN StartCleanup(FALSE)
       ELSE UNCHANGED <<killed, signals, rlClosed, registered>>
    /\ UNCHANGED <<sessionVars, callToken, promise, stopPromise, stdin, timers,
                   termPc, termCall>>

ProcessExit ==
    /\ ProcessExits
    /\ UNCHANGED <<toolVars, registryVars, parserVars, readerVars>>

\* the command text terminateGdbSession passes (index.ts:1581)
GdbExit == <<"-", "gdb-exit">>

\* terminateGdbSession up to its await (index.ts:1572-1581)
TerminateCall ==
    /\ termPc = "idle"
    /\ registered
    /\ ~MicrotaskPending
    /\ Budget
    /\ ExecuteGdbCommand(GdbExit, promise)
    /\ termPc' = "awaiting"
    /\ termCall' = Len(promise) + 1
    /\ UNCHANGED <<ready, status, stopHandler, stopPromise, processVars>>
    /\ UNCHANGED <<toolVars, registryVars, parserVars, readerVars>>

\* terminateGdbSession after its await (index.ts:1582-1595)
TerminateFinish ==
    /\ termPc = "awaiting"
    /\ Settled(promise[termCall])
    /\ promise' = [promise EXCEPT ![termCall] = Returned]
    /\ IF ~killed
       THEN Kill("SIGTERM", processAlive)
       ELSE UNCHANGED <<killed, signals>>
    /\ rlClosed' = TRUE
    /\ registered' = FALSE
    /\ termPc' = "done"
    /\ UNCHANGED <<sessionVars, callToken, stopPromise, stdin, timers,
                   processAlive, termCall>>
    /\ UNCHANGED <<toolVars, registryVars, parserVars, readerVars>>

(* ----------------------- one tool call, followed ----------------------- *)

\* the tools that issue a command and then wait for the stop: gdb_step stands
\* for gdb_run, gdb_step, gdb_next, gdb_finish and gdb_interrupt by MI command,
\* which await waitForStop; gdb_continue races it with a 2 s timer
Tools == {"gdb_step", "gdb_continue"}

\* the command the tool passes (index.ts:1093, 1191)
ToolCommand(tool) ==
    IF tool = "gdb_step" THEN <<"exec-step">> ELSE <<"exec-continue">>

\* the catch block of handleGdbStep (index.ts:1213-1219) and of
\* handleGdbContinue (index.ts:1131-1136), which sets no isError
FailureResponse(tool, message) ==
    IF tool = "gdb_step"
    THEN [isError |-> TRUE, text |-> "Failed to step",
          record |-> NoRecord, message |-> message]
    ELSE [isError |-> FALSE, text |-> "Failed to continue execution",
          record |-> NoRecord, message |-> message]

\* the return after the stop (index.ts:1207-1212, 1123-1129)
StopResponse(tool, record) ==
    [isError |-> FALSE,
     text |-> IF tool = "gdb_step" THEN "Stepped" ELSE "Program stopped",
     record |-> record, message |-> ""]

\* the return of handleGdbContinue when its 2 s timer wins (index.ts:1114-1121)
RunningResponse ==
    [isError |-> FALSE, text |-> "Program is running",
     record |-> NoRecord, message |-> ""]

\* the followed tool call is past its command's Result and has not returned
AfterResult ==
    \/ handler.pc = "command" /\ promise[handler.call].kind = "resolved"
    \/ handler.pc = "stop"

\* the reader delivers one line while a tool call is followed
ToolDispatch(rec) ==
    /\ LineHandler(rec)
    /\ stopSeen' = (IF stopSeen = NoRecord /\ IsExec(rec, "stopped") /\ AfterResult
                    THEN rec
                    ELSE stopSeen)
    /\ UNCHANGED <<handler, response>>
    /\ UNCHANGED <<registryVars, parserVars, readerVars>>

\* the tool handler up to its await of executeGdbCommand
\* (index.ts:1176-1193, 1078-1093)
ToolCall(tool) ==
    /\ handler.pc \in {"idle", "done"}
    /\ registered
    /\ ~MicrotaskPending
    /\ Len(promise) + Len(stopPromise) + 2 <= MaxOps
    /\ ExecuteGdbCommand(ToolCommand(tool), promise)
    /\ handler' = [tool |-> tool, pc |-> "command",
                   call |-> Len(promise) + 1, waiter |-> 0]
    /\ response' = NoResponse
    /\ stopSeen' = NoRecord
    /\ UNCHANGED <<ready, status, stopHandler, stopPromise, processVars,
                   termPc, termCall>>
    /\ UNCHANGED <<registryVars, parserVars, readerVars>>

\* the tool handler resumes after executeGdbCommand: it returns the failure,
\* or calls waitForStop and awaits it (index.ts:1193-1205, 1093-1112)
ToolAfterCommand ==
    /\ handler.pc = "command"
    /\ Settled(promise[handler.call])
    /\ promise' = [promise EXCEPT ![handler.call] = Returned]
    /\ IF promise[handler.call].kind = "rejected"
       THEN /\ response' =
                 FailureResponse(handler.tool, promise[handler.call].message)
            /\ handler' = [handler EXCEPT !.pc = "done"]
            /\ UNCHANGED <<stopPromise, stopHandler>>
       ELSE /\ WaitForStop
            /\ handler' = [handler EXCEPT !.pc = "stop",
                                          !.waiter = Len(stopPromise) + 1]
            /\ UNCHANGED response
    /\ UNCHANGED <<ready, tokenSequence, pendingCommands, status, outputBuffer,
                   callToken, stdin, timers, processVars, termPc, termCall,
                   stopSeen>>
    /\ UNCHANGED <<registryVars, parserVars, readerVars>>

\* the tool handler resumes after waitForStop and returns the stop
\* (index.ts:1205-1212, 1112-1129)
ToolAfterStop ==
    /\ handler.pc = "stop"
    /\ Settled(stopPromise[handler.waiter])
    /\ stopPromise' = [stopPromise EXCEPT ![handler.waiter] = Returned]
    /\ response' = StopResponse(handler.tool, stopPromise[handler.waiter].record)
    /\ handler' = [handler EXCEPT !.pc = "done"]
    /\ UNCHANGED <<sessionVars, callToken, promise, stdin, timers, processVars,
                   termPc, termCall, stopSeen>>
    /\ UNCHANGED <<registryVars, parserVars, readerVars>>

\* the 2 s timer of handleGdbContinue wins the race (index.ts:1107-1121)
ContinueTimeout ==
    /\ handler.tool = "gdb_continue"
    /\ handler.pc = "stop"
    /\ ~MicrotaskPending
    /\ response' = RunningResponse
    /\ handler' = [handler EXCEPT !.pc = "done"]
    /\ UNCHANGED <<sessionVars, callToken, promise, stopPromise, stdin, timers,
                   processVars, termPc, termCall, stopSeen>>
    /\ UNCHANGED <<registryVars, parserVars, readerVars>>

(* ------------------------ gdb_start, followed --------------------------- *)

\* handleGdbStart awaiting its promise (index.ts:593-618)
StartHandler == [tool |-> "gdb_start", pc |-> "wait", call |-> 0, waiter |-> 0]

\* the return of handleGdbStart with the session id (index.ts:620-627)
StartedResponse ==
    [isError |-> FALSE, text |-> "GDB session started",
     record |-> NoRecord, message |-> ""]

\* the return of the catch block of handleGdbStart (index.ts:638-647)
StartFailedResponse(message) ==
    [isError |-> TRUE, text |-> "Failed to start GDB",
     record |-> NoRecord, message |-> message]

\* a session just built, with its gdb_start call followed
CreateInit ==
    /\ SessionInit
    /\ RegistryInit
    /\ NoLine
    /\ handler = StartHandler
    /\ response = NoResponse
    /\ stopSeen = NoRecord

\* what becomes of the awaited promise when a callback has cleared the
\* interval: rejected while the session is not ready, otherwise left pending
\* with nothing to settle it (index.ts:602-617)
StartSettles(message) ==
    IF handler.pc # "wait"
    THEN UNCHANGED <<handler, response>>
    ELSE IF StartFails
    THEN /\ response' = StartFailedResponse(message)
         /\ handler' = [handler EXCEPT !.pc = "done"]
    ELSE /\ handler' = [handler EXCEPT !.pc = "hung"]
         /\ UNCHANGED response

\* the setInterval callback finds session.ready (index.ts:594-599)
CreateTick ==
    /\ handler.pc = "wait"
    /\ ready
    /\ ~MicrotaskPending
    /\ response' = StartedResponse
    /\ handler' = [handler EXCEPT !.pc = "done"]
    /\ UNCHANGED <<sessionVars, callToken, promise, stopPromise, stdin, timers,
                   processVars, termPc, termCall, stopSeen>>
    /\ UNCHANGED <<registryVars, parserVars, readerVars>>

\* the 10 s timer of handleGdbStart (index.ts:602-605)
CreateTimeout ==
    /\ StartTimeoutFires
    /\ StartSettles("GDB start timeout")
    /\ UNCHANGED stopSeen
    /\ UNCHANGED <<registryVars, parserVars, readerVars>>

\* gdbProcess.on('exit') (index.ts:612-617)
CreateExit ==
    /\ ProcessExits
    /\ StartSettles("GDB process exited")
    /\ UNCHANGED stopSeen
    /\ UNCHANGED <<registryVars, parserVars, readerVars>>

\* gdbProcess.on('error'): gdb could not be spawned (index.ts:607-610)
CreateError ==
    /\ handler.pc = "wait"
    /\ processAlive
    /\ ~ready
    /\ ~MicrotaskPending
    /\ processAlive' = FALSE
    /\ StartCleanup(FALSE)
    /\ response' = StartFailedResponse("spawn error")
    /\ handler' = [handler EXCEPT !.pc = "done"]
    /\ UNCHANGED <<sessionVars, callToken, promise, stopPromise, stdin, timers,
                   termPc, termCall, stopSeen>>
    /\ UNCHANGED <<registryVars, parserVars, readerVars>>

(* ----------------------------- the registry ---------------------------- *)
(* activeSessions with several sessions: the ids handleGdbStart gives out,  *)
(* the lookups of the tool handlers, terminateGdbSession called by          *)
(* gdb_terminate and by the SIGINT handler.  A session is reduced to what   *)
(* these touch: closed stands for its process killed and its readline       *)
(* closed, which the code does together; an executeGdbCommand is reduced to *)
(* its write, and its wait ends (by a Result, by the 10 s timer or by the   *)
(* not-ready rejection).                                                    *)

\* the variables of the one-session engine, which rest here
engineVars ==
    <<sessionVars, processVars, callToken, promise, stopPromise, stdin, timers,
      termPc, termCall, handler, stopSeen>>

\* ids a caller may pass: the values of the clock, and 0, which is never given out
SessionIds == 0 .. MaxNow

\* activeSessions.has(id): deleted entries stay in the Map's list, marked empty
RegistryHas(id) ==
    \E i \in DOMAIN mapData : mapData[i].present /\ mapData[i].key = id

\* activeSessions.get(id) for an id the Map has: the session object's index
RegistryGet(id) ==
    mapData[CHOOSE i \in DOMAIN mapData :
                mapData[i].present /\ mapData[i].key = id].value

\* activeSessions.set(id, session): the value of an existing key is replaced in
\* place, a new key is appended
RegistrySet(id, session) ==
    IF RegistryHas(id)
    THEN [i \in DOMAIN mapData |->
            IF mapData[i].present /\ mapData[i].key = id
            THEN [mapData[i] EXCEPT !.value = session] ELSE mapData[i]]
    ELSE Append(mapData, [key |-> id, value |-> session, present |-> TRUE])

\* activeSessions.delete(id)
RegistryDelete(id) ==
    [i \in DOMAIN mapData |->
        IF mapData[i].key = id THEN [mapData[i] EXCEPT !.present = FALSE]
        ELSE mapData[i]]

\* a lookup that hands out the first session for an id the Map does not have
LookupOrFirst(id) ==
    IF RegistryHas(id) THEN RegistryGet(id)
    ELSE IF sessionObjs # << >> THEN 1 ELSE 0

\* the has/get pair that opens every handler and terminateGdbSession;
\* 0 stands for the not-found branch
Lookup(id) ==
    IF RegistryHas(id) THEN RegistryGet(id) ELSE 0

\* the not-found branch of a handler
NotFoundResponse ==
    [isError |-> TRUE, text |-> "No active GDB session with ID"]

\* handleGdbTerminate's result when terminateGdbSession returned
TerminatedResponse ==
    [isError |-> FALSE, text |-> "GDB session terminated"]

\* the server takes requests until the SIGINT handler closes it
Accepting == shutdown.pc \in {"idle", "awaiting"}

\* the process runs: it has not exited, and no rejection of the SIGINT handler
\* has gone unhandled
Running == shutdown.pc \notin {"exited", "aborted"}

\* handleGdbStart up to the wait for the prompt (index.ts:508-543); the
\* clock reads the millisecond of the call, which is not before the last one read
GdbStart ==
    /\ Accepting
    /\ Len(sessionObjs) < MaxSessions
    /\ \E t \in now .. MaxNow :
          /\ now' = t
          /\ sessionObjs' = Append(sessionObjs,
                  [id |-> t, ready |-> FALSE, start |-> "wait", closed |-> FALSE,
                   terminating |-> FALSE])
          /\ mapData' = RegistrySet(t, Len(sessionObjs) + 1)
    /\ response' = NoResponse
    /\ UNCHANGED <<written, shutdown>>
    /\ UNCHANGED <<engineVars, parserVars, readerVars>>

\* the line handler sees the first prompt of session s and the start wait
\* ends with the session ready (index.ts:546-551, 596-601)
Prompt(s) ==
    /\ Running
    /\ s \in DOMAIN sessionObjs
    /\ ~sessionObjs[s].closed /\ ~sessionObjs[s].ready
    /\ sessionObjs' = [sessionObjs EXCEPT
                          ![s].ready = TRUE,
                          ![s].start = IF @ = "wait" THEN "ok" ELSE @]
    /\ UNCHANGED <<now, mapData, written, shutdown, response>>
    /\ UNCHANGED <<engineVars, parserVars, readerVars>>

\* the start wait of session s is rejected and handleGdbStart cleans up what
\* the Map holds under its id (index.ts:602-618, 629-636)
StartRejects(s) ==
    /\ Running
    /\ s \in DOMAIN sessionObjs
    /\ sessionObjs[s].start = "wait" /\ ~sessionObjs[s].ready
    /\ LET id == sessionObjs[s].id
           held == Lookup(id)
           cleaned == IF held = 0 THEN sessionObjs
                      ELSE [sessionObjs EXCEPT ![held].closed = TRUE]
       IN  /\ sessionObjs' = [cleaned EXCEPT ![s].start = "failed"]
           /\ mapData' = IF held = 0 THEN mapData ELSE RegistryDelete(id)
    /\ UNCHANGED <<now, written, shutdown, response>>
    /\ UNCHANGED <<engineVars, parserVars, readerVars>>

\* executeGdbCommand on session s as the registry sees it: one line written
\* when the session is ready (index.ts:1496-1519)
Write(s) ==
    written' = IF sessionObjs[s].ready THEN written + 1 ELSE written

\* handleGdbCommand (index.ts:713-731)
GdbCommand(id) ==
    /\ Accepting
    /\ LET s == Lookup(id)
       IN  IF s = 0
           THEN /\ response' = NotFoundResponse
                /\ UNCHANGED written
           ELSE /\ written < MaxCalls
                /\ Write(s)
                /\ response' = NoResponse
    /\ UNCHANGED <<now, mapData, sessionObjs, shutdown>>
    /\ UNCHANGED <<engineVars, parserVars, readerVars>>

\* terminateGdbSession called by gdb_terminate, up to its await
\* (index.ts:819-836, 1572-1581): the exit command is sent; the client makes
\* one such call at a time on a session
GdbTerminate(id) ==
    /\ Accepting
    /\ LET s == Lookup(id)
       IN  IF s = 0
           THEN /\ response' = NotFoundResponse
                /\ UNCHANGED <<sessionObjs, written>>
           ELSE /\ ~sessionObjs[s].terminating
                /\ Write(s)
                /\ sessionObjs' = [sessionObjs EXCEPT ![s].terminating = TRUE]
                /\ response' = NoResponse
    /\ UNCHANGED <<now, mapData, shutdown>>
    /\ UNCHANGED <<engineVars, parserVars, readerVars>>

\* the entries activeSessions holds, in the Map's order
LiveEntries == SelectSeq(mapData, LAMBDA e : e.present)

\* handleGdbListSessions (index.ts:859-865): one item per entry of the Map,
\* with the id it is registered under; session is the object the item is read from
ListSessions ==
    [i \in DOMAIN LiveEntries |->
        [id |-> LiveEntries[i].key, session |-> LiveEntries[i].value]]

\* terminateGdbSession after its await: the session it looked up is killed and
\* closed, the id it was given is deleted (index.ts:1582-1595)
Terminated(objs, s) == [objs EXCEPT ![s].closed = TRUE]

\* a terminateGdbSession call of gdb_terminate on session s returns, and
\* handleGdbTerminate with it (index.ts:1582-1595, 838-845)
TerminateResumes(s) ==
    /\ Running
    /\ s \in DOMAIN sessionObjs
    /\ sessionObjs[s].terminating
    /\ sessionObjs' = [Terminated(sessionObjs, s) EXCEPT ![s].terminating = FALSE]
    /\ mapData' = RegistryDelete(sessionObjs[s].id)
    /\ response' = TerminatedResponse
    /\ UNCHANGED <<now, written, shutdown>>
    /\ UNCHANGED <<engineVars, parserVars, readerVars>>

\* an iterator that keeps walking over entries deleted since it started
NextEntrySnapshot(md, cursor) ==
    IF cursor < Len(md) THEN cursor + 1 ELSE 0

\* the Map iterator of the SIGINT handler's loop: the next entry after the
\* cursor that is still in the Map, entries added meanwhile included; 0 at the end
NextEntry(md, cursor) ==
    LET later == {i \in DOMAIN md : i > cursor /\ md[i].present}
    IN  IF later = {} THEN 0
        ELSE CHOOSE i \in later : \A j \in later : i <= j

\* one turn of the SIGINT handler's loop over the Map md
\* (index.ts:80-83, 1572-1581): terminateGdbSession is called for the next
\* entry, where it throws for an id the Map does not have and else sends the
\* exit command; at the end of the Map the server is closed
ShutdownIterate(md, cursor) ==
    LET n == NextEntry(md, cursor)
    IN  IF n = 0
        THEN /\ shutdown' = [pc |-> "closing", cursor |-> cursor, call |-> 0]
             /\ UNCHANGED written
        ELSE IF ~md[n].present
        THEN /\ shutdown' = [pc |-> "aborted", cursor |-> n, call |-> 0]
             /\ UNCHANGED written
        ELSE /\ shutdown' = [pc |-> "awaiting", cursor |-> n, call |-> md[n].value]
             /\ Write(md[n].value)

\* SIGINT arrives (index.ts:78-81)
Sigint ==
    /\ shutdown.pc = "idle"
    /\ ShutdownIterate(mapData, 0)
    /\ UNCHANGED <<now, mapData, sessionObjs, response>>
    /\ UNCHANGED <<engineVars, parserVars, readerVars>>

\* the handler's terminateGdbSession call returns and its loop goes on
\* (index.ts:1582-1595, 80-83)
ShutdownResumes ==
    /\ shutdown.pc = "awaiting"
    /\ mapData' = RegistryDelete(sessionObjs[shutdown.call].id)
    /\ sessionObjs' = Terminated(sessionObjs, shutdown.call)
    /\ ShutdownIterate(mapData', shutdown.cursor)
    /\ UNCHANGED <<now, response>>
    /\ UNCHANGED <<engineVars, parserVars, readerVars>>

\* server.close() returned: process.exit(0) (index.ts:83-84)
ShutdownExits ==
    /\ shutdown.pc = "closing"
    /\ shutdown' = [shutdown EXCEPT !.pc = "exited"]
    /\ UNCHANGED <<now, mapData, sessionObjs, written, response>>
    /\ UNCHANGED <<engineVars, parserVars, readerVars>>

(* ------------------------------ MiParser -------------------------------- *)

\* A string is the sequence of its characters.  readline delivers a line
\* without its terminator, so the `.` of the patterns matches every character.

\* \d
Digit == {"0", "1", "2", "3", "4", "5", "6", "7", "8", "9"}

\* a-z
Lower ==
    {"a", "b", "c", "d", "e", "f", "g", "h", "i", "j", "k", "l", "m",
     "n", "o", "p", "q", "r", "s", "t", "u", "v", "w", "x", "y", "z"}

\* A-Z
Upper ==
    {"A", "B", "C", "D", "E", "F", "G", "H", "I", "J", "K", "L", "M",
     "N", "O", "P", "Q", "R", "S", "T", "U", "V", "W", "X", "Y", "Z"}

\* \w
WordChar == Digit \cup Lower \cup Upper \cup {"_"}

\* [a-zA-Z0-9_-], the characters of a key (index.ts:1673)
KeyChar == WordChar \cup {"-"}

\* the characters String.prototype.trim removes, as far as a line can hold them
WhiteSpace == {" ", "\t", "\n", "\r"}

RECURSIVE TrimStart(_)
TrimStart(s) ==
    IF s # << >> /\ Head(s) \in WhiteSpace THEN TrimStart(Tail(s)) ELSE s

RECURSIVE TrimEnd(_)
TrimEnd(s) ==
    IF s # << >> /\ s[Len(s)] \in WhiteSpace
    THEN TrimEnd(SubSeq(s, 1, Len(s) - 1))
    ELSE s

\* line.trim() (index.ts:1614)
Trim(s) == TrimEnd(TrimStart(s))

\* the index after the longest run of characters of cls that starts at p
RunEnd(s, p, cls) ==
    CHOOSE q \in p .. Len(s) + 1 :
        /\ \A i \in p .. q - 1 : s[i] \in cls
        /\ q = Len(s) + 1 \/ s[q] \notin cls

\* the value of one decimal digit
DigitValue(c) == CHOOSE n \in 0 .. 9 : ToString(n) = c

\* parseInt of a run of digits (index.ts:1626, 1640)
RECURSIVE ParseInt(_)
ParseInt(ds) ==
    IF ds = << >>
    THEN 0
    ELSE 10 * ParseInt(SubSeq(ds, 1, Len(ds) - 1)) + DigitValue(ds[Len(ds)])

\* a sequential String.prototype.replace of backslash-c by r, all occurrences
RECURSIVE ReplaceAll(_, _, _)
ReplaceAll(s, c, r) ==
    IF Len(s) < 2
    THEN s
    ELSE IF s[1] = "\\" /\ s[2] = c
         THEN <<r>> \o ReplaceAll(SubSeq(s, 3, Len(s)), c, r)
         ELSE <<s[1]>> \o ReplaceAll(Tail(s), c, r)

\* unescapeString: five replaces, one after the other (index.ts:1694-1701)
UnescapeString(str) ==
    ReplaceAll(
        ReplaceAll(
            ReplaceAll(
                ReplaceAll(
                    ReplaceAll(str, "n", "\n"),
                    "r", "\r"),
                "t", "\t"),
            "\"", "\""),
        "\\", "\\")

\* a JavaScript string as a value of the decoded data
StringValue(text) == [kind |-> "string", text |-> text, items |-> << >>]

\* a JavaScript object as a value of the decoded data: its properties, each
\* a key and a value, in the order of their first assignment
ObjectValue(items) == [kind |-> "tuple", text |-> << >>, items |-> items]

\* const data = {} (index.ts:1665)
EmptyObject == ObjectValue(<< >>)

\* data[key] = value (index.ts:1680, 1683, 1688)
ObjectSet(obj, key, value) ==
    IF \E i \in DOMAIN obj.items : obj.items[i].key = key
    THEN ObjectValue([i \in DOMAIN obj.items |->
                        IF obj.items[i].key = key
                        THEN [key |-> key, value |-> value]
                        ELSE obj.items[i]])
    ELSE ObjectValue(Append(obj.items, [key |-> key, value |-> value]))

\* regex.exec found nothing
NoMatch == [key |-> << >>, group |-> 0, text |-> << >>, end |-> 0]

\* "((?:[^"\\]|\\.)*)" from the character after the opening quote: the index
\* of the closing quote, 0 when the string is not closed (index.ts:1673)
RECURSIVE StringEnd(_, _)
StringEnd(s, p) ==
    IF p > Len(s) THEN 0
    ELSE IF s[p] = "\"" THEN p
    ELSE IF s[p] = "\\"
         THEN IF p + 1 > Len(s) THEN 0 ELSE StringEnd(s, p + 2)
    ELSE StringEnd(s, p + 1)

\* the lazy (.*?) followed by a closing character: the index of the first
\* occurrence of close at or after p, 0 when there is none (index.ts:1673)
FirstClose(s, p, close) ==
    IF \E q \in p .. Len(s) : s[q] = close
    THEN CHOOSE q \in p .. Len(s) :
            /\ s[q] = close
            /\ \A i \in p .. q - 1 : s[i] # close
    ELSE 0

\* the pattern of parseData tried at index p: a run of key characters, '=',
\* then a quoted string (group 3), '{' up to the first '}' (group 4) or
\* '[' up to the first ']' (group 5) (index.ts:1673)
MatchAt(s, p) ==
    LET e == RunEnd(s, p, KeyChar) IN
    IF e = p \/ e + 1 > Len(s) THEN NoMatch
    ELSE IF s[e] # "=" THEN NoMatch
    ELSE LET open == s[e + 1]
             q == IF open = "\"" THEN StringEnd(s, e + 2)
                  ELSE IF open = "{" THEN FirstClose(s, e + 2, "}")
                  ELSE IF open = "[" THEN FirstClose(s, e + 2, "]")
                  ELSE 0
         IN  IF q = 0 THEN NoMatch
             ELSE [key |-> SubSeq(s, p, e - 1),
                   group |-> IF open = "\"" THEN 3 ELSE IF open = "{" THEN 4 ELSE 5,
                   text |-> SubSeq(s, e + 2, q - 1),
                   end |-> q]

\* regex.exec(dataStr) with lastIndex = from - 1: the leftmost match
\* (index.ts:1676)
Exec(s, from) ==
    LET starts == {p \in from .. Len(s) : MatchAt(s, p).end # 0} IN
    IF starts = {}
    THEN NoMatch
    ELSE MatchAt(s, CHOOSE p \in starts : \A o \in starts : p <= o)

RECURSIVE ParseData(_)

\* the value stored for a match: an unescaped string, the recursive parse of
\* what stands between the braces, or the text between the brackets as it is
\* (index.ts:1678-1689)
MatchValue(m) ==
    IF m.group = 3 THEN StringValue(UnescapeString(m.text))
    ELSE IF m.group = 4 THEN ParseData(m.text)
    ELSE StringValue(m.text)

\* the while loop of parseData (index.ts:1676-1690)
RECURSIVE ParseLoop(_, _, _)
ParseLoop(s, from, data) ==
    LET m == Exec(s, from) IN
    IF m.end = 0
    THEN data
    ELSE ParseLoop(s, m.end + 1, ObjectSet(data, m.key, MatchValue(m)))

\* MiParser.parseData (index.ts:1664-1692)
ParseData(dataStr) == ParseLoop(dataStr, 1, EmptyObject)

\* /^(\d+)?M(\w+)(?:,(.*))?$/ with M one of marks, the patterns of the result
\* and of the async record (index.ts:1621, 1634): whether the line matches,
\* and its groups (the last one '' when absent, as `|| ''` makes it)
RecordMatch(s, marks) ==
    LET d == RunEnd(s, 1, Digit)
        c == RunEnd(s, d + 1, WordChar)
    IN  IF d > Len(s) THEN [ok |-> FALSE]
        ELSE IF s[d] \notin marks THEN [ok |-> FALSE]
        ELSE IF c = d + 1 THEN [ok |-> FALSE]
        ELSE IF c <= Len(s) /\ s[c] # "," THEN [ok |-> FALSE]
        ELSE [ok |-> TRUE,
              token |-> IF d = 1 THEN NoToken ELSE ParseInt(SubSeq(s, 1, d - 1)),
              mark |-> s[d],
              class |-> SubSeq(s, d + 1, c - 1),
              rest |-> SubSeq(s, c + 1, Len(s))]

\* /^([~@&])"(.*)"$/ (index.ts:1649)
StreamMatch(s) ==
    /\ Len(s) >= 3
    /\ s[1] \in {"~", "@", "&"}
    /\ s[2] = "\""
    /\ s[Len(s)] = "\""

\* const types = { '*': 'exec', '+': 'status', '=': 'notify' } (index.ts:1636)
AsyncTypes(mark) ==
    IF mark = "*" THEN "exec" ELSE IF mark = "+" THEN "status" ELSE "notify"

\* const types = { '~': 'console', '@': 'target', '&': 'log' } (index.ts:1651)
StreamTypes(mark) ==
    IF mark = "~" THEN "console" ELSE IF mark = "@" THEN "target" ELSE "log"

\* MiParser.parse (index.ts:1613-1662)
Parse(l) ==
    LET s == Trim(l)
        resultMatch == RecordMatch(s, {"^"})
        asyncMatch == RecordMatch(s, {"*", "+", "="})
    IN  IF s = <<"(", "g", "d", "b", ")">> THEN PromptRecord
        ELSE IF resultMatch.ok
        THEN [type |-> "result", token |-> resultMatch.token,
              class |-> resultMatch.class, data |-> ParseData(resultMatch.rest)]
        ELSE IF asyncMatch.ok
        THEN [type |-> "async", token |-> asyncMatch.token,
              atype |-> AsyncTypes(asyncMatch.mark),
              class |-> asyncMatch.class, data |-> ParseData(asyncMatch.rest)]
        ELSE IF StreamMatch(s)
        THEN [type |-> "stream", stype |-> StreamTypes(s[1]),
              content |-> UnescapeString(SubSeq(s, 3, Len(s) - 1))]
        ELSE NullRecord

\* const parsed = MiParser.parse(line) (index.ts:547)
ParseLine ==
    /\ parsed = NoRecord
    /\ parsed' = Parse(line)
    /\ UNCHANGED <<line, engineVars, response, registryVars, readerVars>>

(* ------------------------- lines handed to parse ------------------------ *)

\* the deepest nesting of the values of a body
MaxDepth == 3

\* a list of the MI grammar as a value: its items, in order, each a bare value
\* (no key) or a key=value pair
ListValue(items) == [kind |-> "list", text |-> << >>, items |-> items]

\* an item of a tuple or of a list of pairs, and an item of a list of values
Pair(key, value) == [key |-> key, value |-> value]
Bare(value) == [key |-> << >>, value |-> value]

\* texts of c-strings: plain, and with a closing brace or bracket inside
Texts == {<<"1">>, <<"}">>, <<"x", "]">>}

\* the values of nesting depth d that the bodies are built from: under each
\* value of depth d - 1, a tuple of one and of two pairs, a list of one and of
\* two values and a list of one pair; the empty tuple and the empty list
RECURSIVE ValuesOfDepth(_)
ValuesOfDepth(d) ==
    IF d = 0
    THEN {StringValue(t) : t \in Texts}
    ELSE LET two == StringValue(<<"2">>)
             below == ValuesOfDepth(d - 1)
         IN  {ObjectValue(<<Pair(<<"a">>, v)>>) : v \in below}
                 \cup {ObjectValue(<<Pair(<<"a">>, v), Pair(<<"b">>, two)>>) : v \in below}
                 \cup {ListValue(<<Bare(v)>>) : v \in below}
                 \cup {ListValue(<<Bare(v), Bare(two)>>) : v \in below}
                 \cup {ListValue(<<Pair(<<"a">>, v)>>) : v \in below}
                 \cup {ObjectValue(<< >>), ListValue(<< >>)}

\* a character of a c-string as the MI grammar writes it
EscapeChar(c) ==
    IF c = "\\" THEN <<"\\", "\\">>
    ELSE IF c = "\"" THEN <<"\\", "\"">>
    ELSE IF c = "\n" THEN <<"\\", "n">>
    ELSE IF c = "\r" THEN <<"\\", "r">>
    ELSE IF c = "\t" THEN <<"\\", "t">>
    ELSE <<c>>

RECURSIVE Escape(_)
Escape(text) ==
    IF text = << >> THEN << >> ELSE EscapeChar(Head(text)) \o Escape(Tail(text))

\* a value, and the items of a tuple or list, written in the MI grammar:
\* value := c-string | '{' pairs '}' | '[' values or pairs ']'
RECURSIVE Encode(_)
RECURSIVE EncodeItems(_)
EncodeItems(items) ==
    IF items = << >> THEN << >>
    ELSE LET first == Head(items)
             one == IF first.key = << >>
                    THEN Encode(first.value)
                    ELSE first.key \o <<"=">> \o Encode(first.value)
         IN  IF Len(items) = 1
             THEN one
             ELSE one \o <<",">> \o EncodeItems(Tail(items))

Encode(v) ==
    IF v.kind = "string" THEN <<"\"">> \o Escape(v.text) \o <<"\"">>
    ELSE IF v.kind = "tuple" THEN <<"{">> \o EncodeItems(v.items) \o <<"}">>
    ELSE <<"[">> \o EncodeItems(v.items) \o <<"]">>

\* the key the bodies bind their value to
BodyKey == <<"r">>

\* ^done,r=value: the line, and the value it was written from
ValueSample(v) ==
    [text |-> <<"^", "d", "o", "n", "e">> \o <<",">> \o BodyKey \o <<"=">> \o Encode(v), value |-> v]

\* a line for every value of every depth up to MaxDepth
ValueSamples ==
    UNION {{ValueSample(v) : v \in ValuesOfDepth(d)} : d \in 0 .. MaxDepth}

\* bodies that are not of the grammar: a brace and a bracket left open, a
\* string left open, a key without a value, text after the value
MalformedBodies ==
    {<<"r", "=", "{", "a", "=", "\"", "1", "\"">>,
     <<"r", "=", "[", "\"", "1", "\"">>,
     <<"r", "=", "\"", "1">>,
     <<"r", "=">>,
     <<"r", "=", "\"", "1", "\"", "x">>}

MalformedLines == {<<"^", "d", "o", "n", "e">> \o <<",">> \o b : b \in MalformedBodies}

\* what may stand around a line: nothing, a blank before, a tab and a blank after
Paddings ==
    {[before |-> << >>, after |-> << >>],
     [before |-> <<" ">>, after |-> << >>],
     [before |-> << >>, after |-> <<"\t", " ">>]}

\* the optional token of a record: absent, one digit, two digits
TokenTexts == {<< >>, <<"7">>, <<"1", "2">>}

\* the classes of the records of the MI output, and an optional payload
ClassTexts ==
    {<<"d", "o", "n", "e">>, <<"e", "r", "r", "o", "r">>, <<"s", "t", "o", "p", "p", "e", "d">>,
     <<"t", "h", "r", "e", "a", "d", "-", "g", "r", "o", "u", "p", "-", "a", "d", "d", "e", "d">>}

PayloadTexts == {<< >>, <<",", "i", "d", "=", "\"", "i", "1", "\"">>}

\* the lines of the five shapes, each with the tag the shape stands for:
\* the prompt; token, mark, class and payload; mark and quoted string
TaggedSamples ==
    {[text |-> p.before \o <<"(", "g", "d", "b", ")">> \o p.after,
      type |-> "prompt", token |-> NoToken, kind |-> "none"] : p \in Paddings}
        \cup {[text |-> p.before \o t \o <<m>> \o c \o d \o p.after,
               type |-> IF m = "^" THEN "result" ELSE "async",
               token |-> IF t = << >> THEN NoToken ELSE ParseInt(t),
               kind |-> IF m = "^" THEN "none" ELSE AsyncTypes(m)] :
                 p \in Paddings, t \in TokenTexts, m \in {"^", "*", "+", "="},
                 c \in ClassTexts, d \in PayloadTexts}
        \cup {[text |-> p.before \o <<m, "\"">> \o Escape(t) \o <<"\"">> \o p.after,
               type |-> "stream", token |-> NoToken, kind |-> StreamTypes(m)] :
                 p \in Paddings, m \in {"~", "@", "&"}, t \in Texts}

\* lines of no shape: free text, the empty line, a mark alone, a stream
\* without its closing quote
ShapelessLines ==
    {<<"h", "e", "l", "l", "o">>, << >>, <<"^">>, <<"~", "\"", "a", "b", "c">>}

\* the longest c-string text whose escapes are followed
MaxText == 2

\* the characters of those texts: the five that the MI grammar escapes, the
\* letter that follows the backslash in the escape of a newline, a letter
EscapeAlphabet == {"\\", "\"", "\n", "\r", "\t", "n", "a"}

\* the texts of length n and less over the alphabet
RECURSIVE TextsUpTo(_)
TextsUpTo(n) ==
    IF n = 0
    THEN {<< >>}
    ELSE LET shorter == TextsUpTo(n - 1) IN
         shorter \cup {Append(t, c) : t \in shorter, c \in EscapeAlphabet}

\* ~"escaped text": the console line of a text, and the text
EscapeSamples ==
    {[text |-> <<"~", "\"">> \o Escape(t) \o <<"\"">>, value |-> t] :
        t \in TextsUpTo(MaxText)}

\* the lines the parser is given
Lines ==
    {s.text : s \in ValueSamples} \cup {s.text : s \in TaggedSamples}
        \cup {s.text : s \in EscapeSamples}
        \cup MalformedLines \cup ShapelessLines

(* --------------------------- specification ----------------------------- *)

Next ==
    \/ \E rec \in Records : Dispatch(rec)
    \/ \E command \in Commands : Execute(command)
    \/ \E call \in 1 .. MaxOps : Return(call)
    \/ \E call \in 1 .. MaxOps, command \in Commands :
          ReturnThenExecute(call, command)
    \/ \E call \in 1 .. MaxOps : ReturnThenWait(call)
    \/ TimeoutFire
    \/ StartTimeout
    \/ Interrupt
    \/ \E waiter \in 1 .. MaxOps : StopReturn(waiter)
    \/ ProcessExit
    \/ TerminateCall
    \/ TerminateFinish

Spec == Init /\ [][Next]_vars

\* timers fire and queued continuations run; the debugger owes nothing
FairSpec ==
    /\ Spec
    /\ WF_vars(TimeoutFire)
    /\ WF_vars(StartTimeout)
    /\ WF_vars(TerminateFinish)
    /\ \A call \in 1 .. MaxOps :
          WF_vars(Return(call) \/ ReturnThenWait(call)
                    \/ \E command \in Commands : ReturnThenExecute(call, command))
    /\ \A waiter \in 1 .. MaxOps : WF_vars(StopReturn(waiter))

\* the commands of one session: executeGdbCommand, the Results and prompts
\* of the debugger, the 10 s timers, the exit of the process and terminate;
\* waitForStop is not called
CommandNext ==
    \/ \E rec \in ResultRecords \cup {PromptRecord} : Dispatch(rec)
    \/ \E command \in Commands : Execute(command)
    \/ \E call \in 1 .. MaxOps : Return(call)
    \/ \E call \in 1 .. MaxOps, command \in Commands :
          ReturnThenExecute(call, command)
    \/ TimeoutFire
    \/ StartTimeout
    \/ ProcessExit
    \/ TerminateCall
    \/ TerminateFinish

\* timers fire and queued continuations run; the debugger owes nothing
CommandSpec ==
    /\ Init
    /\ [][CommandNext]_vars
    /\ WF_vars(TimeoutFire)
    /\ WF_vars(StartTimeout)
    /\ WF_vars(TerminateFinish)
    /\ \A call \in 1 .. MaxOps :
          WF_vars(Return(call)
                    \/ \E command \in Commands : ReturnThenExecute(call, command))

\* one session and one tool call at a time on it
ToolNext ==
    \/ \E rec \in Records : ToolDispatch(rec)
    \/ \E tool \in Tools : ToolCall(tool)
    \/ ToolAfterCommand
    \/ ToolAfterStop
    \/ ContinueTimeout
    \/ TimeoutFire
    \/ StartTimeout
    \/ ProcessExit

\* timers fire and queued continuations run; the debugger owes nothing
ToolSpec ==
    /\ Init
    /\ [][ToolNext]_vars
    /\ WF_vars(TimeoutFire)
    /\ WF_vars(StartTimeout)
    /\ WF_vars(ToolAfterCommand)
    /\ WF_vars(ToolAfterStop)
    /\ WF_vars(ContinueTimeout)

\* one session from its construction, with the tool calls that can reach it
\* while gdb_start waits and after
CreateNext ==
    \/ \E rec \in Records : Dispatch(rec)
    \/ CreateTick
    \/ CreateTimeout
    \/ CreateExit
    \/ CreateError
    \/ \E command \in Commands : Execute(command)
    \/ \E call \in 1 .. MaxOps : Return(call)
    \/ TimeoutFire
    \/ Interrupt
    \/ \E waiter \in 1 .. MaxOps : StopReturn(waiter)
    \/ TerminateCall
    \/ TerminateFinish

CreateSpec == CreateInit /\ [][CreateNext]_vars

RegistryNext ==
    \/ GdbStart
    \/ \E s \in 1 .. MaxSessions : Prompt(s)
    \/ \E s \in 1 .. MaxSessions : StartRejects(s)
    \/ \E id \in SessionIds : GdbCommand(id)
    \/ \E id \in SessionIds : GdbTerminate(id)
    \/ \E s \in 1 .. MaxSessions : TerminateResumes(s)

\* the registry under the tool calls that address a session
RegistrySpec == Init /\ [][RegistryNext]_vars

ShutdownNext ==
    \/ GdbStart
    \/ \E s \in 1 .. MaxSessions : Prompt(s)
    \/ \E s \in 1 .. MaxSessions : StartRejects(s)
    \/ \E id \in SessionIds : GdbTerminate(id)
    \/ \E s \in 1 .. MaxSessions : TerminateResumes(s)
    \/ Sigint
    \/ ShutdownResumes
    \/ ShutdownExits

\* the registry under SIGINT, sessions being started and terminated
\* meanwhile; every await of the SIGINT handler returns
ShutdownSpec ==
    /\ Init
    /\ [][ShutdownNext]_vars
    /\ WF_vars(ShutdownResumes \/ ShutdownExits)

\* the stream lines the debugger prints: console text, console text with an
\* escaped newline, target text, log text
StreamLines ==
    {<<"~", "\"", "a", "\"">>,
     <<"~", "\"", "b", "\\", "n", "\"">>,
     <<"@", "\"", "a", "\"">>,
     <<"&", "\"", "a", "\"">>}

\* the prompt line
PromptLine == <<"(", "g", "d", "b", ")">>

\* the reader delivers a line: it is parsed and the record dispatched
\* (index.ts:546-590)
ReadLine(l) ==
    /\ line' = l
    /\ parsed' = Parse(l)
    /\ LineHandlerUpTo(Parse(l), MaxStream)
    /\ UNCHANGED <<toolVars, registryVars, readerVars>>

StreamNext ==
    \/ \E l \in StreamLines \cup {PromptLine} : ReadLine(l)
    \/ \E command \in Commands : Execute(command)

\* one session whose debugger prints stream lines and prompts between commands
StreamSpec == Init /\ [][StreamNext]_vars

\* the id of the session of the engine: the clock read as the server starts
\* (index.ts:513)
EngineSessionId == 1

\* the records whose dispatch is followed step by step: a Result without a
\* token, the Results of the first token, the exec, status and notify async
\* records, a console stream record, the prompt
ReaderRecords ==
    {r \in ResultRecords :
        (r.token = NoToken \/ r.token = 1) /\ r.data = EmptyData
            /\ r.class \in {"done", "error"}}
        \cup {r \in AsyncRecords : r.class \in {"stopped", "running"}}
        \cup {r \in StreamRecords : r.stype = "console"}
        \cup {PromptRecord}

\* the lines that are followed through the parser: those of no shape, and a
\* notify record whose class holds a hyphen
ReaderLines == ShapelessLines \cup {<<"=", "a", "-", "b">>}

\* a handler that notifies the client of every async record
NotificationsForAsync(rec) ==
    IF rec.type = "async"
    THEN <<[method |-> <<"gdb/", rec.class>>, sessionId |-> EngineSessionId,
            data |-> rec.data]>>
    ELSE << >>

\* the calls of this.server.notification the handler makes for a record
\* (index.ts:557-568)
NotificationsFor(rec) ==
    IF rec.type = "async" /\ rec.atype = "exec"
    THEN <<[method |-> <<"gdb/", rec.class>>, sessionId |-> EngineSessionId,
            data |-> rec.data]>>
    ELSE << >>

\* rl.on('line', ...) from the parse to the notification (index.ts:546-568):
\* the reader delivers a line, the handler parses it and notifies the client
LineArrives(rec) ==
    /\ linePc = "idle"
    /\ ~rlClosed
    /\ Accumulates(rec) => Len(outputBuffer) < MaxBuf
    /\ parsed' = rec
    /\ notifications' = NotificationsFor(rec)
    /\ linePc' = "handling"
    /\ UNCHANGED <<line, engineVars, response, registryVars>>

\* the same for a line that goes through MiParser.parse (index.ts:546-568)
TextArrives(l) ==
    /\ linePc = "idle"
    /\ ~rlClosed
    /\ Accumulates(Parse(l)) => Len(outputBuffer) < MaxBuf
    /\ line' = l
    /\ parsed' = Parse(l)
    /\ notifications' = NotificationsFor(Parse(l))
    /\ linePc' = "handling"
    /\ UNCHANGED <<engineVars, response, registryVars>>

\* rl.on('line', ...) after the notification: the session is updated
\* (index.ts:548-556, 570-589)
LineHandled ==
    /\ linePc = "handling"
    /\ LineHandlerUpTo(parsed, MaxBuf)
    /\ linePc' = "idle"
    /\ UNCHANGED <<toolVars, registryVars, parserVars, notifications>>

\* one session whose handler is followed from the arrival of a line to its
\* end; the handler is synchronous, so nothing else runs in between
ReaderNext ==
    \/ \E rec \in ReaderRecords : LineArrives(rec)
    \/ \E l \in ReaderLines : TextArrives(l)
    \/ LineHandled
    \/ linePc = "idle" /\ \E command \in Commands : Execute(command)
    \/ linePc = "idle" /\ \E call \in 1 .. MaxOps : Return(call)
    \/ linePc = "idle" /\ \E call \in 1 .. MaxOps : ReturnThenWait(call)
    \/ linePc = "idle" /\ TimeoutFire
    \/ linePc = "idle" /\ StartTimeout
    \/ linePc = "idle" /\ Interrupt
    \/ linePc = "idle" /\ \E waiter \in 1 .. MaxOps : StopReturn(waiter)

ReaderSpec == Init /\ [][ReaderNext]_vars

\* a line is handed to the parser
ParserInit ==
    /\ SessionInit
    /\ RegistryInit
    /\ handler = NoHandler
    /\ response = NoResponse
    /\ stopSeen = NoRecord
    /\ line \in Lines
    /\ parsed = NoRecord
    /\ linePc = "idle"
    /\ notifications = << >>

ParserNext == ParseLine

ParserSpec == ParserInit /\ [][ParserNext]_vars

(* ------------------------------ claims --------------------------------- *)

\* the executeGdbCommand calls of the run
Calls == DOMAIN promise

\* the waitForStop calls of the run
Waiters == DOMAIN stopPromise

\* the calls that were given a token
IsToken(t) == t # 0

IssuedTokens == SelectSeq(callToken, IsToken)

\* C1: a Result settles the call that was registered under the Result's token
\* and no other call, whatever the order in which the debugger answers; the
\* token leaves pendingCommands with it, and pendingCommands only ever holds
\* the tokens of calls that are still suspended.
C1_ResultSettlesItsOwnCaller ==
    /\ [](\A t \in DOMAIN pendingCommands :
            /\ promise[pendingCommands[t]] = Pending
            /\ callToken[pendingCommands[t]] = t)
    /\ [][/\ \A c \in Calls :
              promise'[c] # promise[c] =>
                 \A r \in Records : Dispatch(r) =>
                    /\ r.type = "result"
                    /\ r.token = callToken[c]
                    /\ promise[c] = Pending
                    /\ promise'[c] # Pending
          /\ \A t \in DOMAIN pendingCommands :
              (\/ DOMAIN pendingCommands' # DOMAIN pendingCommands \ {t}
               \/ promise'[pendingCommands[t]] = Pending) =>
                 \A s \in ResultShapes :
                    ~Dispatch([type |-> "result", token |-> t,
                               class |-> s.class, data |-> s.data])
         ]_vars

\* C1 witness: the second of two in-flight commands has been answered while
\* the first is still in pendingCommands.
C1_Witness ==
    \E c1, c2 \in Calls :
        /\ c1 < c2
        /\ IsToken(callToken[c1])
        /\ callToken[c1] \in DOMAIN pendingCommands
        /\ promise[c1] = Pending
        /\ promise[c2].kind = "resolved"
        /\ promise[c2].result.token = callToken[c2]

\* C2: the tokens given out are 1, then strictly greater ones, so no two
\* calls of the session share a token, every token in pendingCommands was
\* given out earlier, and the lines written carry these tokens in order.
C2_TokensStartAtOneAndIncrease ==
    /\ (IssuedTokens # << >> => IssuedTokens[1] = 1)
    /\ \A i, j \in DOMAIN IssuedTokens :
         i < j => IssuedTokens[i] < IssuedTokens[j]
    /\ \A i \in DOMAIN IssuedTokens : IssuedTokens[i] < tokenSequence
    /\ \A t \in DOMAIN pendingCommands :
         \E i \in DOMAIN IssuedTokens : IssuedTokens[i] = t
    /\ Len(stdin) = Len(IssuedTokens)
    /\ \A i \in DOMAIN stdin : stdin[i][1] = IssuedTokens[i]

\* C2 witness: a second token was given out while the first was in flight.
C2_Witness ==
    /\ Len(IssuedTokens) >= 2
    /\ Cardinality(DOMAIN pendingCommands) >= 2

\* the exec records of class running and of class stopped
ExecRunStop ==
    {r \in AsyncRecords :
        r.atype = "exec" /\ r.class \in {"running", "stopped"}}

\* C3: status starts as stopped; dispatching *running sets it to running,
\* dispatching *stopped sets it to stopped, dispatching any other record
\* leaves it, and no step other than such a dispatch changes it.
C3_StatusFollowsExecAsyncOnly ==
    /\ status = "stopped"
    /\ [][IF status' = status
          THEN \A r \in ExecRunStop : r.class # status => ~Dispatch(r)
          ELSE /\ \A r \in Records \ ExecRunStop : ~Dispatch(r)
               /\ \A r \in ExecRunStop : r.class # status' => ~Dispatch(r)
               /\ \E r \in ExecRunStop : r.class = status' /\ Dispatch(r)
         ]_vars

\* C3 witness: ^running has resolved a command and status is still stopped.
C3_Witness ==
    /\ status = "stopped"
    /\ \E c \in Calls :
         /\ promise[c].kind = "resolved"
         /\ promise[c].result.class = "running"

\* C4: a call of executeGdbCommand made while the session is not ready is
\* rejected as not ready and takes no token, registers nothing, leaves
\* outputBuffer as it is and writes nothing.
C4_NotReadyCallHasNoEffect ==
    [][(Len(promise') = Len(promise) + 1 /\ ~ready) =>
            /\ promise'[Len(promise')] =
                 [kind |-> "rejected", message |-> "GDB session is not ready"]
            /\ callToken'[Len(promise')] = 0
            /\ tokenSequence' = tokenSequence
            /\ pendingCommands' = pendingCommands
            /\ outputBuffer' = outputBuffer
            /\ stdin' = stdin
            /\ timers' = timers
      ]_vars

\* C4 witness: a call was rejected as not ready and outputBuffer still holds
\* what the debugger printed before.
C4_Witness ==
    /\ ~ready
    /\ outputBuffer # << >>
    /\ \E c \in Calls :
         promise[c] = [kind |-> "rejected", message |-> "GDB session is not ready"]

\* the outcome a Result record gives the call registered under its token,
\* with the message the debugger provided taken as it is
OutcomeAsProvided(r, p) ==
    IF r.class = "error"
    THEN /\ p.kind = "rejected"
         /\ "msg" \in DOMAIN r.data => p.message = r.data.msg
    ELSE /\ p.kind = "resolved"
         /\ p.result.class = r.class
         /\ p.result.data = r.data

\* the same, with the fixed text wherever the record has no msg or an empty one
OutcomeWithFallback(r, p) ==
    IF r.class = "error"
    THEN /\ p.kind = "rejected"
         /\ p.message = (IF "msg" \in DOMAIN r.data /\ r.data.msg # ""
                         THEN r.data.msg
                         ELSE "Unknown GDB error")
    ELSE /\ p.kind = "resolved"
         /\ p.result.class = r.class
         /\ p.result.data = r.data

\* C5 (as amended): a Result of class error rejects the call registered under
\* its token, with the debugger's msg when the record carries a non-empty one
\* and with "Unknown GDB error" otherwise; a Result of any other class resolves
\* the call with that class and payload.
C5_OutcomeFollowsResultClass ==
    [][\A c \in Calls :
          promise'[c] # promise[c] =>
             \A r \in ResultRecords :
                Dispatch(r) => OutcomeWithFallback(r, promise'[c])
      ]_vars

\* C5 witness: a call was rejected with the fixed text.
C5_Witness ==
    \E c \in Calls :
        /\ IsToken(callToken[c])
        /\ promise[c] = [kind |-> "rejected", message |-> "Unknown GDB error"]

\* C5 (as stated): a Result of class error rejects the call with the message
\* the debugger provided, whatever that message is.
C5_RejectedWithProvidedMessage ==
    [][\A c \in Calls :
          promise'[c] # promise[c] =>
             \A r \in ResultRecords :
                Dispatch(r) => OutcomeAsProvided(r, promise'[c])
      ]_vars

\* the outcome the specification names ProcessExited
ProcessExited == [kind |-> "rejected", message |-> "ProcessExited"]

\* C6: at the exit of the debugger process every command in pendingCommands
\* and the registered stop waiter are settled with ProcessExited, and
\* pendingCommands is left empty.
C6_ExitSettlesEveryWaiter ==
    [][(processAlive /\ ~processAlive') =>
            /\ \A t \in DOMAIN pendingCommands :
                 promise'[pendingCommands[t]] = ProcessExited
            /\ DOMAIN pendingCommands' = {}
            /\ stopHandler # 0 => stopPromise'[stopHandler] = ProcessExited
      ]_vars

\* C7: when terminateGdbSession completes, every command that was still in
\* pendingCommands has been settled with ProcessExited and removed.
C7_TerminateSettlesInFlight ==
    [][(termPc = "awaiting" /\ termPc' = "done") =>
            \A t \in DOMAIN pendingCommands :
                /\ t \notin DOMAIN pendingCommands'
                /\ promise'[pendingCommands[t]] = ProcessExited
      ]_vars

\* a call of executeGdbCommand whose promise is not settled
CallSuspended(c) == c \in Calls /\ promise[c] = Pending

\* a call of waitForStop whose promise is not settled
WaiterSuspended(w) == w \in Waiters /\ stopPromise[w] = Pending

\* every suspended executeGdbCommand eventually completes
ExecuteWaitIsBounded ==
    \A c \in 1 .. MaxOps : CallSuspended(c) ~> ~CallSuspended(c)

\* C8: every suspended executeGdbCommand and every suspended waitForStop
\* eventually completes, whatever the debugger does.
C8_EveryWaitIsBounded ==
    /\ \A c \in 1 .. MaxOps : CallSuspended(c) ~> ~CallSuspended(c)
    /\ \A w \in 1 .. MaxOps : WaiterSuspended(w) ~> ~WaiterSuspended(w)

\* C9: the dispatch of *stopped resolves every waitForStop call that is still
\* suspended, with that record, and status is stopped then; no other step
\* settles a waitForStop call.
C9_FirstStopResolvesWaiter ==
    [][/\ \A w \in Waiters :
              stopPromise[w] = Pending =>
                 \A r \in AsyncRecords :
                    (r.atype = "exec" /\ r.class = "stopped" /\ Dispatch(r)) =>
                        /\ stopPromise'[w] = [kind |-> "resolved", record |-> r]
                        /\ status' = "stopped"
       /\ \A w \in Waiters :
              (stopPromise[w] = Pending /\ stopPromise'[w] # Pending) =>
                 \E r \in AsyncRecords :
                    r.atype = "exec" /\ r.class = "stopped" /\ Dispatch(r)
      ]_vars

\* the oldest waitForStop call that is still suspended
OldestWaiter ==
    CHOOSE w \in Waiters :
        /\ stopPromise[w] = Pending
        /\ \A v \in Waiters : stopPromise[v] = Pending => w <= v

\* C10: the dispatch of *stopped while waitForStop calls are suspended resolves
\* the oldest of them with that record and leaves every other one suspended.
C10_StopResolvesOldestWaiterOnly ==
    [][(\E w \in Waiters : stopPromise[w] = Pending) =>
          \A r \in AsyncRecords :
             (r.atype = "exec" /\ r.class = "stopped" /\ Dispatch(r)) =>
                 /\ stopPromise'[OldestWaiter] = [kind |-> "resolved", record |-> r]
                 /\ \A w \in Waiters \ {OldestWaiter} :
                      stopPromise'[w] = stopPromise[w]
      ]_vars

\* C12: with at most one command in flight, outputBuffer is empty when the
\* command is written, from then to the command's Result it only grows, by the
\* content of each console stream record dispatched, and the output the
\* command resolves with is outputBuffer as it stands at the Result.
C12_OutputIsTheCommandsWindow ==
    [][/\ (DOMAIN pendingCommands = {} /\ DOMAIN pendingCommands' # {}) =>
             outputBuffer' = << >>
       /\ (Cardinality(DOMAIN pendingCommands) = 1
              /\ DOMAIN pendingCommands' = DOMAIN pendingCommands
              /\ outputBuffer' # outputBuffer) =>
             \E r \in StreamRecords :
                 /\ Dispatch(r)
                 /\ outputBuffer' = Append(outputBuffer, r.content)
       /\ \A t \in DOMAIN pendingCommands :
             (/\ DOMAIN pendingCommands = {t}
              /\ promise'[pendingCommands[t]].kind = "resolved") =>
                 promise'[pendingCommands[t]].output = outputBuffer
      ]_vars

\* C12 witness: the only command of the run resolved with the text that was
\* accumulated while it was in flight.
C12_Witness ==
    /\ Len(promise) = 1
    /\ promise[1].kind = "resolved"
    /\ promise[1].output # << >>

\* C13: a command written while another command is in flight leaves
\* outputBuffer as it is, and the text a command resolves with is not left in
\* outputBuffer for another command that is still in flight.
C13_OutputBelongsToOneCommand ==
    [][\A t \in DOMAIN pendingCommands :
          /\ tokenSequence' # tokenSequence => outputBuffer' = outputBuffer
          /\ (/\ promise'[pendingCommands[t]].kind = "resolved"
              /\ promise'[pendingCommands[t]].output # << >>
              /\ DOMAIN pendingCommands' # {}) =>
                 outputBuffer' = << >>
      ]_vars

\* C19: every line written to the debugger is the token, one dash, a command
\* text that does not start with a dash, and a newline, and the token is the
\* one under which the call was registered.
C19_LinesAreTokenDashCommand ==
    /\ Len(stdin) = Len(IssuedTokens)
    /\ \A i \in DOMAIN stdin :
         /\ Len(stdin[i]) >= 4
         /\ stdin[i][1] = IssuedTokens[i]
         /\ stdin[i][2] = "-"
         /\ stdin[i][3] # "-"
         /\ stdin[i][Len(stdin[i])] = "\n"

\* every terminateGdbSession call completes
TerminateCompletes == (termPc = "awaiting") ~> (termPc = "done")

\* C16: terminateGdbSession completes, and at its completion a process that
\* is still alive has been sent SIGTERM, the reader is closed and the session
\* is out of activeSessions.
C16_TerminateKillsClosesRemoves ==
    /\ TerminateCompletes
    /\ [][(termPc = "awaiting" /\ termPc' = "done") =>
             /\ processAlive' => "SIGTERM" \in signals'
             /\ rlClosed'
             /\ ~registered'
         ]_vars

\* C11: when a *stopped record is dispatched after the Result of the command of
\* a tool call that waits for the stop, the tool call eventually returns with
\* a stop record, wherever the registration of its stop handler falls.
C11_StopAfterResultIsReturned ==
    (handler.tool = "gdb_step" /\ stopSeen # NoRecord)
        ~> (handler.pc = "done" /\ response.text = "Stepped")

\* C20: handleGdbContinue returns a stop and "still running" without the error
\* flag and a failure of the continue command with it, and its 2 s timer
\* leaves status alone.
C20_ContinueOutcomesAreFlagged ==
    /\ [](handler.tool = "gdb_continue" /\ handler.pc = "done" =>
            /\ response.text \in {"Program stopped", "Program is running",
                                  "Failed to continue execution"}
            /\ response.isError <=> response.text = "Failed to continue execution")
    /\ [][response' = RunningResponse => status' = status]_vars

\* C14: gdb_start returns the session id only when the session is ready; when
\* it returns a failure the session is out of activeSessions, its reader is
\* closed and its process has exited or has been sent SIGTERM.
C14_CreateReturnsReadyOrTornDown ==
    /\ [](response = StartedResponse => ready)
    /\ [][(response = NoResponse /\ response'.text = "Failed to start GDB") =>
             /\ ~ready
             /\ ~registered'
             /\ rlClosed'
             /\ processAlive' => "SIGTERM" \in signals'
         ]_vars

\* C15: every session created has an id no other session created has, two
\* creates at one instant of the clock included, and no step replaces the
\* session an entry of the registry holds: a create never takes over an entry.
C15_CreateGivesFreshIdAndKeepsEntries ==
    /\ [](\A a, b \in DOMAIN sessionObjs :
            a # b => sessionObjs[a].id # sessionObjs[b].id)
    /\ [][\A i \in DOMAIN mapData :
            (mapData[i].present /\ mapData'[i].present)
                => mapData'[i].value = mapData[i].value]_vars

\* C18: a gdb_command or gdb_terminate call with an id the registry does not
\* hold returns the not-found error, writes to no process, and leaves the
\* registry, every session and the shutdown as they were.
C18_UnknownIdIsNotFoundAndInert ==
    [][\A id \in SessionIds :
          (~RegistryHas(id) /\ (GdbCommand(id) \/ GdbTerminate(id)))
              => /\ response' = NotFoundResponse
                 /\ response'.isError
                 /\ UNCHANGED <<mapData, sessionObjs, written, shutdown>>]_vars

\* a call was answered not-found while the registry held a ready session and
\* after another session had been removed from it
C18_Witness ==
    /\ response = NotFoundResponse
    /\ \E i \in DOMAIN mapData :
          mapData[i].present /\ sessionObjs[mapData[i].value].ready
    /\ \E i \in DOMAIN mapData : ~mapData[i].present

C21_ResultCompletesExecute ==
    [][\A r \in ResultRecords :
          (r.token \in DOMAIN pendingCommands /\ Dispatch(r)) =>
              LET c == pendingCommands[r.token] IN
              /\ promise[c] = Pending => promise'[c] # Pending
              /\ (promise[c] = Pending /\ r.class = "running") =>
                    /\ promise'[c].kind = "resolved"
                    /\ promise'[c].result = r
              /\ status' = status
      ]_vars

\* C21 witness: a command was resolved by ^running and the target has since
\* been reported running, with no stop after it.
C21_Witness ==
    /\ status = "running"
    /\ \E c \in Calls :
          /\ promise[c] # Pending
          /\ promise[c].kind = "resolved"
          /\ promise[c].result.class = "running"

\* C29: the dispatch of a Result whose token is no key of pendingCommands (a
\* token never issued, one already answered or timed out, token 0, or none)
\* settles no call and leaves pendingCommands, tokenSequence, status, ready,
\* outputBuffer and stopHandler as they were.
C29_UnmatchedResultChangesNothing ==
    [][\/ UNCHANGED <<pendingCommands, tokenSequence, status, ready,
                       outputBuffer, stopHandler, promise, stopPromise>>
       \/ \A r \in ResultRecords :
             ~(r.token \notin DOMAIN pendingCommands /\ Dispatch(r))
      ]_vars

\* C29 witness: the reader is open, the token of one call has timed out and
\* another is in flight, so that a late Result for the first finds no entry.
C29_Witness ==
    /\ ~rlClosed
    /\ DOMAIN pendingCommands # {}
    /\ \E c \in Calls :
          /\ promise[c] = [kind |-> "rejected", message |-> "GDB command timed out"]
          /\ callToken[c] \notin DOMAIN pendingCommands

\* the items of the list that are read from session s
ListedAs(s) == {i \in DOMAIN ListSessions : ListSessions[i].session = s}

\* C22: the list has exactly one item, under the session's id, for every
\* session whose start succeeded and which has not been closed, and none for
\* a session whose start failed or which terminateGdbSession (or the clean-up
\* of a failed start) has closed.
C22_ListShowsTheOpenSessions ==
    \A s \in DOMAIN sessionObjs :
        /\ (sessionObjs[s].start = "ok" /\ ~sessionObjs[s].closed) =>
              /\ Cardinality(ListedAs(s)) = 1
              /\ \A i \in ListedAs(s) : ListSessions[i].id = sessionObjs[s].id
        /\ (sessionObjs[s].start = "failed" \/ sessionObjs[s].closed) =>
              ListedAs(s) = {}

\* the entries of the registry that hold session s
EntriesOf(md, s) == {i \in DOMAIN md : md[i].present /\ md[i].value = s}

\* C23: a line of session a dispatched, or gdb_command or gdb_terminate (its
\* call and its return) on session a, leaves every other session and the
\* registry entry of every other session as they were.
C23_SessionsAreIndependent ==
    [][\A a \in DOMAIN sessionObjs :
          (\/ Prompt(a)
           \/ TerminateResumes(a)
           \/ (Lookup(sessionObjs[a].id) = a /\ GdbCommand(sessionObjs[a].id))
           \/ (Lookup(sessionObjs[a].id) = a /\ GdbTerminate(sessionObjs[a].id)))
              => \A b \in DOMAIN sessionObjs \ {a} :
                    /\ sessionObjs'[b] = sessionObjs[b]
                    /\ EntriesOf(mapData', b) = EntriesOf(mapData, b)
      ]_vars

\* C24: parse returns a record for every line, and for a line of none of the
\* four shapes the record is Unrecognized carrying the raw line.
C24_ParseIsTotal ==
    parsed # NoRecord =>
        /\ parsed # NullRecord
        /\ parsed.type \notin {"prompt", "result", "async", "stream"} =>
              parsed = [type |-> "unrecognized", raw |-> line]

\* the tag of a record: its shape, its token, its kind
TagOf(rec) ==
    [type |-> rec.type,
     token |-> IF rec.type \in {"result", "async"} THEN rec.token ELSE NoToken,
     kind |-> IF rec.type = "async" THEN rec.atype
              ELSE IF rec.type = "stream" THEN rec.stype
              ELSE "none"]

\* C25: for every well-formed line of each shape, surrounded by whitespace or
\* not, parse returns the record of that shape with the digits as its
\* integer token and the mark mapped to its kind.
C25_WellFormedLinesAreTagged ==
    parsed # NoRecord =>
        \A s \in TaggedSamples :
            s.text = line =>
                TagOf(parsed) = [type |-> s.type, token |-> s.token, kind |-> s.kind]

\* what decode is to return for the body r=value
Reference(v) == ObjectValue(<<Pair(BodyKey, v)>>)

\* the lines whose value nests tuples and lists to depth 3 and more
NestedSamples ==
    {s \in ValueSamples :
        s.value \notin ValuesOfDepth(0) \cup ValuesOfDepth(1) \cup ValuesOfDepth(2)}

\* C26: for every well-formed body nesting tuples and lists, braces and
\* brackets inside strings included, each key of the decoded structure is
\* bound to the value its balanced brackets delimit, and the decoded
\* structure, encoded and decoded again, is itself.
C26_DecodeHandlesNesting ==
    parsed # NoRecord =>
        \A s \in NestedSamples :
            s.text = line =>
                /\ parsed.type = "result"
                /\ parsed.data = Reference(s.value)
                /\ ParseData(EncodeItems(parsed.data.items)) = parsed.data

\* the lines whose value is a list of c-strings or of pairs of c-strings
ListSamples == {s \in ValueSamples : s.value \in ValuesOfDepth(1) /\ s.value.kind = "list"}

\* C27: a list decodes to the ordered sequence of its items, bare values as
\* values and pairs as pairs, the empty list to the empty sequence; it is not
\* left as text.
C27_ListsAreDecoded ==
    parsed # NoRecord =>
        \A s \in ListSamples :
            s.text = line =>
                /\ parsed.type = "result"
                /\ parsed.data = Reference(s.value)

\* C28: for a malformed body decode reports a decode error; it does not
\* return a structure.
C28_MalformedBodyIsAnError ==
    (parsed # NoRecord /\ line \in MalformedLines) =>
        parsed.type = "decode-error"

TimedOut == [kind |-> "rejected", message |-> "GDB command timed out"]

\* C33: when a call times out its token leaves pendingCommands, and a Result
\* that arrives later under that token settles no call and leaves
\* pendingCommands, status and the outcome of every call as they were.
C33_LateResultIsDiscarded ==
    [][/\ \A c \in Calls :
             (promise[c] = Pending /\ promise'[c] = TimedOut) =>
                 callToken[c] \notin DOMAIN pendingCommands'
       /\ \/ UNCHANGED <<pendingCommands, status, promise>>
          \/ \A c \in Calls :
                (promise[c] \in {TimedOut, Returned} /\ IsToken(callToken[c])) =>
                    \A r \in ResultRecords :
                        ~(r.token = callToken[c] /\ Dispatch(r))
      ]_vars

\* C33 witness: a call has timed out and has not been answered, its token is
\* out of pendingCommands, and a later call is suspended on the same session.
C33_Witness ==
    /\ ~rlClosed
    /\ \E c, d \in Calls :
          /\ c < d
          /\ promise[c] = TimedOut
          /\ callToken[c] \notin DOMAIN pendingCommands
          /\ promise[d] = Pending
          /\ callToken[d] \in DOMAIN pendingCommands

\* C36: a call that was given a token is settled once: while its promise is
\* pending its token is in pendingCommands and afterwards it is not, so the
\* callback and the timer never both act on it; the step that settles it is
\* the dispatch of a Result under its token or the firing of its timer; its
\* outcome never changes afterwards; and with the timers firing it is settled
\* in the end.
C36_EachCallSettlesOnce ==
    /\ [](\A c \in Calls :
             IsToken(callToken[c]) =>
                ((promise[c] = Pending) <=>
                    (/\ callToken[c] \in DOMAIN pendingCommands
                     /\ pendingCommands[callToken[c]] = c)))
    /\ [][\A c \in Calls :
             /\ promise[c] # Pending => promise'[c] \in {promise[c], Returned}
             /\ (promise[c] = Pending /\ promise'[c] # Pending) =>
                   \/ promise'[c] = TimedOut /\ TimeoutFire
                   \/ \E r \in ResultRecords :
                         r.token = callToken[c] /\ Dispatch(r)
      ]_vars
    /\ \A c \in 1 .. MaxOps : CallSuspended(c) ~> ~CallSuspended(c)

\* C36 witness: a call has been settled and has returned, its timer has fired
\* as well, and the reader is open for another Result under its token.
C36_Witness ==
    /\ ~rlClosed
    /\ \E c \in Calls :
          /\ IsToken(callToken[c])
          /\ promise[c] = Returned
          /\ callToken[c] \notin DOMAIN pendingCommands
          /\ \A t \in DOMAIN timers : timers[t].call # c

\* C37: every key of pendingCommands is a token an earlier call was given,
\* from 1 up to but not including tokenSequence; an entry leaves the map only
\* when a Result under its token is dispatched or its timer fires; and with
\* the timers firing every entry leaves the map in the end.
C37_PendingHoldsIssuedTokensForAWhile ==
    /\ [](\A t \in DOMAIN pendingCommands :
             /\ 1 <= t
             /\ t < tokenSequence
             /\ pendingCommands[t] \in Calls
             /\ callToken[pendingCommands[t]] = t)
    /\ [][\A t \in DOMAIN pendingCommands :
             t \notin DOMAIN pendingCommands' =>
                \/ TimeoutFire /\ Head(timers).token = t
                \/ \E r \in ResultRecords : r.token = t /\ Dispatch(r)
      ]_vars
    /\ \A t \in Tokens :
          (t \in DOMAIN pendingCommands) ~> (t \notin DOMAIN pendingCommands)

\* C37 witness: the entry of the first token has left the map while the
\* entry of the second is in it.
C37_Witness ==
    /\ tokenSequence = 3
    /\ DOMAIN pendingCommands = {2}

\* terminateGdbSession has completed on the session, or its process has exited
SessionTerminated == termPc = "done" \/ ~processAlive

\* C32: a session that was terminated or whose process has exited is not
\* ready, and no call of executeGdbCommand on it writes a line to the
\* process any more: every such call is rejected at once.
C32_TerminatedSessionRefusesCommands ==
    /\ [](SessionTerminated => ~ready)
    /\ [][SessionTerminated =>
             /\ stdin' = stdin
             /\ Len(promise') > Len(promise) =>
                   promise'[Len(promise')].kind = "rejected"
      ]_vars

\* C35: unescaping the escaped form of a text gives the text back, for every
\* text over backslash, double quote, newline, carriage return, tab and
\* letters: each escape is decoded once, and what was decoded is not read
\* again as the start of another escape.
C35_UnescapeUndoesEscape ==
    parsed # NoRecord =>
        \A s \in EscapeSamples :
            s.text = line =>
                /\ parsed.type = "stream"
                /\ parsed.content = s.value

\* C31 as stated: a starting session becomes ready when the first prompt or
\* the first successful Result has been dispatched, later prompts change
\* nothing, and no other step makes it ready.
C31_ReadyOnPromptOrResult ==
    [][ready' =
         (\/ ready
          \/ /\ linePc = "handling"
             /\ \/ parsed.type = "prompt"
                \/ parsed.type = "result" /\ parsed.class # "error")
      ]_vars

\* C31, amended: a starting session becomes ready when the first prompt has
\* been dispatched and by no other step: a Result, successful or not, a stream
\* or async record, a line that does not parse, execute, the stop wait and a
\* timeout leave it starting; a prompt on a ready session changes nothing.
C31_ReadyOnFirstPromptOnly ==
    [][ready' = (ready \/ (linePc = "handling" /\ parsed.type = "prompt"))
      ]_vars

\* C31 witness: a successful Result has been dispatched to a session that is
\* still starting.
C31_Witness ==
    /\ ~ready
    /\ linePc = "idle"
    /\ parsed.type = "result"
    /\ parsed.class = "done"

\* C34: handling a line that the parser could not parse leaves the pending
\* commands, the status, the ready flag, the output buffer, the stop waiter and
\* every promise as they were, and leaves the reader open and the handler idle,
\* so that the following lines are handled as any other.
C34_UnparsedLineIsIsolated ==
    [][(linePc = "handling" /\ Parse(line) = NullRecord /\ parsed = NullRecord)
          => /\ UNCHANGED <<pendingCommands, tokenSequence, status, ready,
                            outputBuffer, stopHandler, promise, stopPromise,
                            stdin, timers>>
             /\ linePc' = "idle"
             /\ ~rlClosed'
      ]_vars

\* C34 witness: the line hello has been handled while a command was in flight
\* and a stop was awaited.
C34_Witness ==
    /\ linePc = "idle"
    /\ line = <<"h", "e", "l", "l", "o">>
    /\ parsed = NullRecord
    /\ DOMAIN pendingCommands # {}
    /\ stopHandler # 0

\* C38: the step in which the handler takes a line sends exactly one
\* notification, gdb/<class> with the id of the session and the record's data,
\* when the line is an exec async record, and none for any other line; in that
\* step the status, the stop waiter and the stop promises are still as they
\* were, and no later step of the handler or of the session sends another.
C38_ExecAsyncNotifiesOnceAndFirst ==
    [][IF linePc = "idle" /\ linePc' = "handling"
       THEN /\ IF parsed'.type = "async" /\ parsed'.atype = "exec"
               THEN /\ Len(notifications') = 1
                    /\ notifications'[1].method = <<"gdb/", parsed'.class>>
                    /\ notifications'[1].sessionId = EngineSessionId
                    /\ notifications'[1].data = parsed'.data
               ELSE notifications' = << >>
            /\ UNCHANGED <<status, stopHandler, stopPromise>>
       ELSE notifications' = notifications
      ]_vars

\* C38 witness: gdb/stopped has been sent for a session whose status is still
\* running and whose stop waiter is still registered.
C38_Witness ==
    /\ linePc = "handling"
    /\ IsExec(parsed, "stopped")
    /\ Len(notifications) = 1
    /\ notifications[1].method = <<"gdb/", "stopped">>
    /\ status = "running"
    /\ stopHandler # 0

====
